---- MODULE Spec2Model ----
(***************************************************************************)
(* Client-side session state of src/client/jwt.ts: the Token Store         *)
(* (localStorage "token"), the URL fragment that delivers a token, the     *)
(* memoized __isLoggedIn, and the asynchronous continuations of logOut,    *)
(* postRefresh, getUserMe and the native appUrlOpen listener.              *)
(*                                                                         *)
(* JavaScript runs each function to its next await in one step, so every   *)
(* action below is one such run: a call up to its first await, or one      *)
(* continuation from an await to the next.                                 *)
(***************************************************************************)
EXTENDS Integers, Sequences, FiniteSets

\* ------------------------------------------------------------------ bounds

\* Continuations that may be suspended at an await at the same time.
MaxInFlight == 2
\* Clock advances of one behaviour.
MaxTicks == 1

\* One clock advance, in seconds: the refresh age.
TickSeconds == 6 * 3600
\* Date.now() / 1000 when the page loads.
StartSeconds == TickSeconds

\* ------------------------------------------------------------------ values

\* localStorage.getItem's null, for a token.
Null == "<null>"
\* An optional value (undefined, null or absent from the payload), and one
\* that is there.
Absent == <<>>
Some(v) == <<v>>

\* A URL string, by its parts: "http://192.168.1.5:9000".
Url(scheme, host, port) == [scheme |-> scheme, host |-> host, port |-> port]

ProdApi == Url("https", <<"api", "openfront", "io">>, "")
LocalApi == Url("http", <<"localhost">>, "8787")
LanDevServer == Url("http", <<"192", "168", "1", "5">>, "9000")
OtherApi == Url("https", <<"api", "evil", "example">>, "")

\* What one page load of the client is built and run with: the platform
\* Capacitor reports, the two process.env values, the page's host name
\* (split at its dots; <<>> is the unset variable) and the "apiHost" entry
\* of localStorage.
Deployments ==
  { [platform |-> "web", CAPACITOR_PRODUCTION_HOSTNAME |-> <<>>,
     API_BASE_URL |-> Absent, hostname |-> <<"www", "openfront", "io">>,
     apiHost |-> Absent],
    [platform |-> "web", CAPACITOR_PRODUCTION_HOSTNAME |-> <<>>,
     API_BASE_URL |-> Absent, hostname |-> <<"localhost">>,
     apiHost |-> Absent],
    [platform |-> "web", CAPACITOR_PRODUCTION_HOSTNAME |-> <<>>,
     API_BASE_URL |-> Absent, hostname |-> <<"localhost">>,
     apiHost |-> Some(LocalApi)],
    [platform |-> "web", CAPACITOR_PRODUCTION_HOSTNAME |-> <<>>,
     API_BASE_URL |-> Some(LanDevServer), hostname |-> <<"localhost">>,
     apiHost |-> Some(LocalApi)],
    [platform |-> "ios", CAPACITOR_PRODUCTION_HOSTNAME |-> <<"openfront", "io">>,
     API_BASE_URL |-> Some(LanDevServer), hostname |-> <<"localhost">>,
     apiHost |-> Absent] }

\* The bearer tokens of the model, and what decodeJwt makes of each: the
\* payload's iss, aud, exp and iat, and whether the payload has the shape
\* TokenPayloadSchema accepts ("noExp" lacks a field the schema wants).
\* "garbled" is no JWT: decodeJwt throws on it.
Tokens == {"prod", "prodNew", "local", "otherIss", "otherAud", "noExp", "garbled"}

Payload(iss, aud, iat, exp, shaped) ==
  [iss |-> iss, aud |-> aud, iat |-> iat, exp |-> exp, shaped |-> shaped]

Payloads ==
  [ prod     |-> Payload(ProdApi, <<"openfront", "io">>, Some(0),
                         Some(2 * TickSeconds), TRUE),
    prodNew  |-> Payload(ProdApi, <<"openfront", "io">>, Some(TickSeconds),
                         Some(3 * TickSeconds), TRUE),
    local    |-> Payload(LocalApi, <<"localhost">>, Some(0),
                         Some(TickSeconds + 1800), TRUE),
    otherIss |-> Payload(OtherApi, <<"openfront", "io">>, Some(TickSeconds),
                         Some(3 * TickSeconds), TRUE),
    otherAud |-> Payload(ProdApi, <<"evil", "example">>, Some(0),
                         Some(2 * TickSeconds), TRUE),
    noExp    |-> Payload(ProdApi, <<"openfront", "io">>, Some(0), Absent, FALSE) ]

Decodable(t) == t \in DOMAIN Payloads

\* The tokens the servers hand out: /refresh and /mobile/callback.
RefreshTokens == {"prodNew"}
CallbackTokens == {"prod"}
\* The tokens a page may be loaded with, in the store or in the fragment.
StoredTokens == Tokens
FragmentTokens == {"prod"}

\* window.location.hash: no fragment, "#token=<t>", or a fragment that
\* carries no token parameter.
NoHash == "<nohash>"
OtherHash == "#other"
Hashes == {NoHash, OtherHash} \cup FragmentTokens


\* ------------------------------------------------------- pure functions

isNative(e) == e.platform # "web"

\* hostname.split(".").slice(-2).join("."), the labels kept apart.
LastTwo(labels) ==
  IF Len(labels) <= 2 THEN labels
  ELSE SubSeq(labels, Len(labels) - 1, Len(labels))

getAudience(e) ==
  LET hostname == IF e.CAPACITOR_PRODUCTION_HOSTNAME # <<>>
                  THEN e.CAPACITOR_PRODUCTION_HOSTNAME
                  ELSE e.hostname
  IN  LastTwo(hostname)

\* String.replace("9000", "8787") on a URL: the first "9000" of the string
\* is its port in every URL of the model.
Replace9000(u) == IF u.port = "9000" THEN [u EXCEPT !.port = "8787"] ELSE u

\* getApiBase(): [threw |-> TRUE] when process.env.API_BASE_URL is
\* undefined where the code calls .replace on it.
Returned(v) == [threw |-> FALSE, value |-> v]
Threw == [threw |-> TRUE]

getApiBase(e) ==
  LET domainname == getAudience(e)
      \* localStorage.getItem("apiHost") ?? (isNative && API_BASE_URL)
      truthy == IF e.apiHost # Absent THEN TRUE
                ELSE isNative(e) /\ e.API_BASE_URL # Absent
  IN  IF domainname = <<"localhost">>
      THEN IF truthy
           THEN IF e.API_BASE_URL = Absent THEN Threw
                ELSE Returned(Replace9000(e.API_BASE_URL[1]))
           ELSE Returned(LocalApi)
      ELSE Returned(Url("https", <<"api">> \o domainname, ""))

\* getToken(): a "#token=<t>" fragment is written to the store, any
\* fragment is stripped from the URL, and the store's token is returned.
getToken(h, stored) ==
  [token |-> IF h \in Tokens THEN h ELSE stored, hash |-> NoHash]

\* decodeJwt(token).
decodeJwt(t) == IF Decodable(t) THEN Returned(Payloads[t]) ELSE Threw

\* TokenPayloadSchema.safeParse(payload).
safeParse(payload) ==
  IF payload.shaped
  THEN [success |-> TRUE,
        data |-> [iss |-> payload.iss, aud |-> payload.aud,
                  iat |-> payload.iat, exp |-> payload.exp]]
  ELSE [success |-> FALSE]

refreshAge == 6 * 3600

\* ------------------------------------------------------------ results

\* The values of IsLoggedInResponse | undefined, and what a call hands its
\* caller: a value, a promise still pending, or a rejected promise.
Unknown == [tag |-> "undefined"]
False == [tag |-> "false"]
LoggedOut == False
Authenticated(t, c) == [tag |-> "authenticated", token |-> t, claims |-> c]
Succeeded == [tag |-> "true"]
UserObject == [tag |-> "user"]
Pending == [tag |-> "pending"]
Rejected == [tag |-> "rejected"]
\* A rejection of a promise nobody awaits (logOut() called by _isLoggedIn,
\* the appUrlOpen listener).
Unhandled == [tag |-> "unhandled rejection"]
Nothing == [tag |-> "none"]

Request(method, base, path, bearer) ==
  [method |-> method, base |-> base, path |-> path, bearer |-> bearer]

\* ------------------------------------------- calls, up to their first await

\* What a synchronous stretch of code did: the store and fragment it leaves,
\* whether it wrote the store's token (setItem, removeItem), whether it
\* assigned false to __isLoggedIn, the requests it issued, the awaits it
\* left suspended, its decodeJwt calls, and what it returned.
Effect(store, h, wrote, loggedOut, requests, spawn, decodes, result) ==
  [store |-> store, hash |-> h, wrote |-> wrote, loggedOut |-> loggedOut,
   requests |-> requests, spawn |-> spawn, decodes |-> decodes,
   result |-> result]

\* logOut as it would be without line 74, the assignment to __isLoggedIn.
logOutCall_MemoKept(stored, h, e, allSessions, awaited) ==
  IF stored = Null
  THEN Effect(stored, h, FALSE, FALSE, <<>>, <<>>, 0, Unknown)
  ELSE IF getApiBase(e).threw
  THEN Effect(Null, h, TRUE, FALSE, <<>>, <<>>, 0,
              IF awaited THEN Rejected ELSE Unhandled)
  ELSE Effect(Null, h, TRUE, FALSE,
              <<Request("POST", getApiBase(e).value,
                        IF allSessions THEN "/revoke" ELSE "/logout", stored)>>,
              <<IF awaited THEN "logOut.fetch" ELSE "logOut.fetch.unawaited">>,
              0, Pending)

\* logOut(allSessions) to its await fetch; `awaited` tells a caller's call
\* from the fire-and-forget call of _isLoggedIn.
logOutCall(stored, h, e, allSessions, awaited) ==
  IF stored = Null
  THEN Effect(stored, h, FALSE, FALSE, <<>>, <<>>, 0, Unknown)
  ELSE LET base == getApiBase(e)
           path == IF allSessions THEN "/revoke" ELSE "/logout"
       IN  IF base.threw
           THEN Effect(Null, h, TRUE, TRUE, <<>>, <<>>, 0,
                       IF awaited THEN Rejected ELSE Unhandled)
           ELSE Effect(Null, h, TRUE, TRUE,
                       <<Request("POST", base.value, path, stored)>>,
                       <<IF awaited THEN "logOut.fetch" ELSE "logOut.fetch.unawaited">>,
                       0, Pending)

\* postRefresh() to its await fetch.
postRefreshCall(stored, h, e) ==
  LET g == getToken(h, stored)
      base == getApiBase(e)
  IN  IF g.token = Null
      THEN Effect(g.token, g.hash, h \in Tokens, FALSE, <<>>, <<>>, 0, LoggedOut)
      ELSE IF base.threw
      THEN Effect(g.token, g.hash, h \in Tokens, TRUE, <<>>, <<>>, 0, LoggedOut)
      ELSE Effect(g.token, g.hash, h \in Tokens, FALSE,
                  <<Request("POST", base.value, "/refresh", g.token)>>,
                  <<"postRefresh.fetch">>, 0, Pending)

\* getUserMe() to its await fetch.
getUserMeCall(stored, h, e) ==
  LET g == getToken(h, stored)
      base == getApiBase(e)
  IN  IF g.token = Null
      THEN Effect(g.token, g.hash, h \in Tokens, FALSE, <<>>, <<>>, 0, LoggedOut)
      ELSE IF base.threw
      THEN Effect(g.token, g.hash, h \in Tokens, TRUE, <<>>, <<>>, 0, LoggedOut)
      ELSE Effect(g.token, g.hash, h \in Tokens, FALSE,
                  <<Request("GET", base.value, "/users/@me", g.token)>>,
                  <<"getUserMe.fetch">>, 0, Pending)

\* The three claim checks of _isLoggedIn, in the code's order, and the
\* refresh test. Each is preceded by the check as a slip would leave it:
\* the audience never compared, Date.now() compared in milliseconds, the
\* expiry reached only once it is past, the refresh only once the token is
\* older than the refresh age.
IssuerMismatch(payload, e, base) == payload.iss # base /\ ~isNative(e)

AudienceMismatch_Skipped(payload, e) == FALSE
AudienceMismatch(payload, e) == payload.aud # getAudience(e)

Expired_Milliseconds(payload, nowSec) ==
  payload.exp # Absent /\ nowSec >= payload.exp[1] * 1000
Expired_Strict(payload, nowSec) ==
  payload.exp # Absent /\ nowSec > payload.exp[1]

\* The test of line 143 as it would be if a token without exp counted as
\* expired.
Expired_WithoutExp(payload, nowSec) ==
  payload.exp = Absent \/ nowSec >= payload.exp[1]

Expired(payload, nowSec) == payload.exp # Absent /\ nowSec >= payload.exp[1]

RefreshDue_Strict(payload, nowSec) ==
  payload.iat # Absent /\ nowSec > payload.iat[1] + refreshAge
RefreshDue(payload, nowSec) ==
  payload.iat # Absent /\ nowSec >= payload.iat[1] + refreshAge

\* _isLoggedIn(), with the logOut() and postRefresh() calls it makes run to
\* their own first await.
_isLoggedIn(stored, h, e, nowSec) ==
  LET g == getToken(h, stored)
      d == decodeJwt(g.token)
      base == getApiBase(e)
      out == logOutCall(g.token, g.hash, e, FALSE, FALSE)
      failed == [out EXCEPT !.decodes = 1, !.result = LoggedOut]
  IN  IF g.token = Null
      THEN Effect(g.token, g.hash, h \in Tokens, FALSE, <<>>, <<>>, 0, LoggedOut)
      ELSE IF d.threw \/ base.threw
      THEN Effect(g.token, g.hash, h \in Tokens, FALSE, <<>>, <<>>, 1, LoggedOut)
      \* logOut() removes the token, whatever getToken wrote before it
      ELSE IF IssuerMismatch(d.value, e, base.value) THEN failed
      ELSE IF AudienceMismatch(d.value, e) THEN failed
      ELSE IF Expired(d.value, nowSec) THEN failed
      ELSE LET r == IF RefreshDue(d.value, nowSec)
                    THEN postRefreshCall(g.token, g.hash, e)
                    ELSE Effect(g.token, g.hash, h \in Tokens, FALSE, <<>>, <<>>, 0, Nothing)
               parsed == safeParse(d.value)
           IN  [r EXCEPT !.decodes = 1,
                         !.result = IF parsed.success
                                    THEN Authenticated(g.token, parsed.data)
                                    ELSE LoggedOut]

\* ------------------------------------------------- the server's CORS check

\* The server's configuration as part_000 reads it: config.origin(),
\* config.env() and what getLocalIP() returns (a string, possibly empty, or
\* undefined).
GameEnv == {"Dev", "Preprod", "Prod"}

ServerOrigins ==
  {"https://openfront.io", "https://openfront.dev", "http://localhost:9000"}

LocalIps == {"192.168.1.5", "10.0.0.7"}

Configs ==
  [origin : ServerOrigins, env : GameEnv,
   localIp : {Absent, Some("")} \cup {Some(ip) : ip \in LocalIps}]

ProdConfig ==
  [origin |-> "https://openfront.io", env |-> "Prod", localIp |-> Absent]

\* allowedOrigins as lines 9-20 would build it without the test of line 15:
\* the local-network entry is pushed whatever config.env() is.
allowedOriginsAtStartup_AnyEnv(c) ==
  <<c.origin, "capacitor://openfront.io", "https://openfront.io">>
    \o (IF c.localIp # Absent /\ c.localIp # Some("")
        THEN <<"http://" \o c.localIp[1] \o ":9000">>
        ELSE <<>>)

\* allowedOrigins as lines 9-20 build it when the module is loaded.
allowedOriginsAtStartup(c) ==
  <<c.origin, "capacitor://openfront.io", "https://openfront.io">>
    \o (IF c.env = "Dev" /\ c.localIp # Absent /\ c.localIp # Some("")
        THEN <<"http://" \o c.localIp[1] \o ":9000">>
        ELSE <<>>)

\* Array.prototype.indexOf, counting from 0: -1 when no element is equal.
indexOf(list, x) ==
  IF \E i \in DOMAIN list : list[i] = x
  THEN (CHOOSE i \in DOMAIN list :
          list[i] = x /\ \A j \in DOMAIN list : list[j] = x => i <= j) - 1
  ELSE -1

\* What the origin function passes to its callback: (null, true) or an Error.
credentials == TRUE

NoAnswer ==
  [asked |-> FALSE, origin |-> Absent, err |-> Null, allow |-> Absent,
   credentials |-> credentials]

Callback(o, err, allow) ==
  [asked |-> TRUE, origin |-> o, err |-> err, allow |-> allow,
   credentials |-> credentials]

\* The Origin headers a request may carry: none, an empty one, "null", the
\* listed origins, and strings that differ from a listed origin in case, by
\* a trailing slash or by a suffix.
RequestOrigins ==
  {Absent} \cup
  { Some(o) : o \in
      { "", "null", "https://openfront.io", "capacitor://openfront.io",
        "https://openfront.dev", "http://localhost:9000",
        "https://evil.example", "https://openfront.io/",
        "HTTPS://OPENFRONT.IO", "https://openfront.io.evil.example",
        "http://192.168.1.5:9000", "http://10.0.0.7:9000" } }

\* corsOptions.origin, lines 23-34: !origin holds of undefined and of the
\* empty string.
corsOptionsOrigin(o, list) ==
  IF o = Absent \/ o = Some("") THEN Callback(o, Null, Some(TRUE))
  ELSE IF indexOf(list, o[1]) # -1 THEN Callback(o, Null, Some(TRUE))
  ELSE Callback(o, "Not allowed by CORS", Absent)

\* ---------------------------------------------------------------- state

VARIABLES
  env,          \* the deployment of this page load
  clockMs,      \* Date.now()
  token,        \* localStorage "token", or Null
  hash,         \* window.location.hash
  memo,         \* __isLoggedIn
  pending,      \* the continuations suspended at each await
  browserOpen,  \* whether the embedded browser (Browser.open) is showing
  lastOp,       \* what the last step was and did
  sinceCall,    \* what isLoggedIn() last returned on this page, and what
                \* has happened to __isLoggedIn since; Nothing once the
                \* store's token has been written since that call
  config,          \* the server: its configuration,
  allowedOrigins,  \* its allowedOrigins array,
  answer           \* and what the origin function last passed its callback

client ==
  <<env, clockMs, token, hash, memo, pending, browserOpen, lastOp, sinceCall>>

server == <<config, allowedOrigins, answer>>

vars ==
  <<env, clockMs, token, hash, memo, pending, browserOpen, lastOp, sinceCall,
    config, allowedOrigins, answer>>

\* The awaits of the module: logOut's fetch, the fetch and response.json()
\* of postRefresh and getUserMe, and the listener's fetch, response.json()
\* and Browser.close() (before a return, before the navigation, and in the
\* catch block).
Positions ==
  { "logOut.fetch", "logOut.fetch.unawaited",
    "postRefresh.fetch", "postRefresh.json",
    "getUserMe.fetch", "getUserMe.json",
    "appUrlOpen.fetch", "appUrlOpen.json",
    "appUrlOpen.close.return", "appUrlOpen.close.navigate",
    "appUrlOpen.close.catch" }

RECURSIVE Total(_, _)
Total(f, S) ==
  IF S = {} THEN 0
  ELSE LET p == CHOOSE q \in S : TRUE IN f[p] + Total(f, S \ {p})

InFlight == Total(pending, Positions)

NonePending == [p \in Positions |-> 0]
Suspend(f, p) == [f EXCEPT ![p] = @ + 1]
Resume(f, p) == [f EXCEPT ![p] = @ - 1]
RECURSIVE SuspendAll(_, _)
SuspendAll(f, ps) ==
  IF ps = <<>> THEN f ELSE SuspendAll(Suspend(f, ps[1]), Tail(ps))

now == clockMs \div 1000

\* What a step leaves in lastOp: its name, how the awaited promise settled
\* ("call" for a call), the token it read, whether _isLoggedIn ran, the
\* effect's requests, decodes, store write and result, what the store held
\* before the step, and, for isLoggedIn(), what sinceCall held when it was
\* called.
Did(op, how, tok, validated, eff) ==
  [op |-> op, how |-> how, tok |-> tok, validated |-> validated,
   wrote |-> eff.wrote, before |-> token,
   requests |-> eff.requests, decodes |-> eff.decodes, result |-> eff.result,
   prev |-> IF op = "isLoggedIn" THEN sinceCall ELSE Nothing]

\* sinceCall after a step that wrote the store's token or not, and that
\* assigned false to __isLoggedIn or not.
ReturnedToCaller(ret) == [tag |-> "returned", ret |-> ret, markedOut |-> FALSE]

After(wrote, markedOut) ==
  IF wrote \/ sinceCall = Nothing THEN Nothing
  ELSE [sinceCall EXCEPT !.markedOut = @ \/ markedOut]

Quiet(result) ==
  Effect(Null, NoHash, FALSE, FALSE, <<>>, <<>>, 0, result)

Init ==
  /\ env \in Deployments
  /\ clockMs = StartSeconds * 1000
  /\ token \in StoredTokens \cup {Null}
  /\ hash \in (IF isNative(env) THEN {NoHash} ELSE Hashes)
  /\ memo = Unknown
  /\ pending = NonePending
  /\ browserOpen = FALSE
  /\ lastOp = [Did("load", "call", Null, FALSE, Quiet(Nothing))
                 EXCEPT !.prev = Nothing]
  /\ sinceCall = Nothing
  /\ config = ProdConfig
  /\ allowedOrigins = allowedOriginsAtStartup(config)
  /\ answer = NoAnswer

\* ---------------------------------------------------------------- actions

\* isLoggedIn() as it would be without the test of line 98: _isLoggedIn()
\* runs on every call.
IsLoggedIn_Recompute ==
  LET eff == _isLoggedIn(token, hash, env, now)
  IN  /\ InFlight + Len(eff.spawn) <= MaxInFlight
      /\ token' = eff.store
      /\ hash' = eff.hash
      /\ memo' = eff.result
      /\ pending' = SuspendAll(pending, eff.spawn)
      /\ lastOp' = Did("isLoggedIn", "call", getToken(hash, token).token,
                        memo = Unknown, eff)
      /\ sinceCall' = ReturnedToCaller(eff.result)
      /\ UNCHANGED <<server, env, clockMs, browserOpen>>

\* isLoggedIn(): lines 97-102.
IsLoggedIn ==
  LET eff == _isLoggedIn(token, hash, env, now)
  IN  IF memo = Unknown
      THEN /\ InFlight + Len(eff.spawn) <= MaxInFlight
           /\ token' = eff.store
           /\ hash' = eff.hash
           /\ memo' = eff.result
           /\ pending' = SuspendAll(pending, eff.spawn)
           /\ lastOp' = Did("isLoggedIn", "call", getToken(hash, token).token,
                             TRUE, eff)
           /\ sinceCall' = ReturnedToCaller(eff.result)
           /\ UNCHANGED <<server, env, clockMs, browserOpen>>
      ELSE /\ lastOp' = Did("isLoggedIn", "call", token, FALSE, Quiet(memo))
           /\ sinceCall' = ReturnedToCaller(memo)
           /\ UNCHANGED <<server, env, clockMs, token, hash, memo, pending, browserOpen>>

\* A call of an exported async function, up to its first await.
Call(op, eff) ==
  /\ InFlight + Len(eff.spawn) <= MaxInFlight
  /\ token' = eff.store
  /\ hash' = eff.hash
  /\ memo' = IF eff.loggedOut THEN LoggedOut ELSE memo
  /\ pending' = SuspendAll(pending, eff.spawn)
  /\ lastOp' = Did(op, "call", token, FALSE, eff)
  /\ sinceCall' = After(eff.wrote, eff.loggedOut)
  /\ UNCHANGED <<server, env, clockMs, browserOpen>>

\* A continuation that resumes at position p and ends, or suspends again
\* at position q (Null: it ends), changing nothing but what is given.
Resumed(p, q) ==
  /\ pending[p] > 0
  /\ pending' = IF q = Null THEN Resume(pending, p)
                 ELSE Suspend(Resume(pending, p), q)

\* logOut(allSessions): lines 70-75, to the await of line 76.
LogOut(allSessions) ==
  Call("logOut", logOutCall(token, hash, env, allSessions, TRUE))

\* logOut from line 76 on: the fetch resolves ok or not ok, or rejects.
FetchOutcomes == {"ok", "not ok", "rejects"}

LogOutFetchDone(p, outcome) ==
  /\ p \in {"logOut.fetch", "logOut.fetch.unawaited"}
  /\ Resumed(p, Null)
  /\ lastOp' = Did("logOut.fetch", outcome, Null, FALSE,
                    Quiet(CASE outcome = "ok" -> Succeeded
                            [] outcome = "not ok" -> False
                            [] outcome = "rejects" ->
                                 IF p = "logOut.fetch" THEN Rejected
                                 ELSE Unhandled))
  /\ UNCHANGED <<server, env, clockMs, token, hash, memo, browserOpen, sinceCall>>

\* postRefresh(): lines 235-241, to the await of line 241.
PostRefresh == Call("postRefresh", postRefreshCall(token, hash, env))

\* postRefresh from line 241 to the await of line 248: the response has
\* status 200 or another status, or the fetch rejects (line 257).
StatusOutcomes == {"200", "500", "rejects"}

PostRefreshFetchDone(outcome) ==
  /\ Resumed("postRefresh.fetch",
              IF outcome = "200" THEN "postRefresh.json" ELSE Null)
  /\ memo' = IF outcome = "rejects" THEN LoggedOut ELSE memo
  /\ lastOp' = Did("postRefresh.fetch", outcome, Null, FALSE,
                    Quiet(IF outcome = "200" THEN Pending ELSE False))
  /\ sinceCall' = After(FALSE, outcome = "rejects")
  /\ UNCHANGED <<server, env, clockMs, token, hash, browserOpen>>

\* postRefresh from line 248 on as it would be if line 255 wrote only while
\* the store still holds a token.
PostRefreshJsonDone_Guarded(body) ==
  /\ body \in RefreshTokens \cup {"invalid", "rejects"}
  /\ Resumed("postRefresh.json", Null)
  /\ token' = IF body \in RefreshTokens /\ token # Null THEN body ELSE token
  /\ memo' = IF body = "rejects" THEN LoggedOut ELSE memo
  /\ lastOp' = Did("postRefresh.json",
                    IF body \in RefreshTokens THEN "valid" ELSE body, Null, FALSE,
                    [Quiet(IF body \in RefreshTokens THEN Succeeded ELSE False)
                       EXCEPT !.wrote = body \in RefreshTokens])
  /\ sinceCall' = After(body \in RefreshTokens, body = "rejects")
  /\ UNCHANGED <<server, env, clockMs, hash, browserOpen>>

\* postRefresh from line 248 on as it would be if line 255 were followed by
\* __isLoggedIn = undefined.
PostRefreshJsonDone_MemoReset(body) ==
  /\ body \in RefreshTokens \cup {"invalid", "rejects"}
  /\ Resumed("postRefresh.json", Null)
  /\ token' = IF body \in RefreshTokens THEN body ELSE token
  /\ memo' = IF body = "rejects" THEN LoggedOut
            ELSE IF body \in RefreshTokens THEN Unknown ELSE memo
  /\ lastOp' = Did("postRefresh.json",
                    IF body \in RefreshTokens THEN "valid" ELSE body, Null, FALSE,
                    [Quiet(IF body \in RefreshTokens THEN Succeeded ELSE False)
                       EXCEPT !.wrote = body \in RefreshTokens])
  /\ sinceCall' = After(body \in RefreshTokens, body = "rejects")
  /\ UNCHANGED <<server, env, clockMs, hash, browserOpen>>

\* postRefresh from line 248 on: the body holds a token, fails the schema,
\* or response.json() rejects.
PostRefreshJsonDone(body) ==
  /\ body \in RefreshTokens \cup {"invalid", "rejects"}
  /\ Resumed("postRefresh.json", Null)
  /\ token' = IF body \in RefreshTokens THEN body ELSE token
  /\ memo' = IF body = "rejects" THEN LoggedOut ELSE memo
  /\ lastOp' = Did("postRefresh.json",
                    IF body \in RefreshTokens THEN "valid" ELSE body, Null, FALSE,
                    [Quiet(IF body \in RefreshTokens THEN Succeeded ELSE False)
                       EXCEPT !.wrote = body \in RefreshTokens])
  /\ sinceCall' = After(body \in RefreshTokens, body = "rejects")
  /\ UNCHANGED <<server, env, clockMs, hash, browserOpen>>

\* getUserMe(): lines 263-269, to the await of line 269.
GetUserMe == Call("getUserMe", getUserMeCall(token, hash, env))

\* getUserMe from line 269 to the await of line 275.
GetUserMeFetchDone(outcome) ==
  /\ Resumed("getUserMe.fetch",
              IF outcome = "200" THEN "getUserMe.json" ELSE Null)
  /\ memo' = IF outcome = "rejects" THEN LoggedOut ELSE memo
  /\ lastOp' = Did("getUserMe.fetch", outcome, Null, FALSE,
                    Quiet(IF outcome = "200" THEN Pending ELSE False))
  /\ sinceCall' = After(FALSE, outcome = "rejects")
  /\ UNCHANGED <<server, env, clockMs, token, hash, browserOpen>>

\* getUserMe from line 275 on.
BodyOutcomes == {"valid", "invalid", "rejects"}

GetUserMeJsonDone(body) ==
  /\ Resumed("getUserMe.json", Null)
  /\ memo' = IF body = "rejects" THEN LoggedOut ELSE memo
  /\ lastOp' = Did("getUserMe.json", body, Null, FALSE,
                    Quiet(IF body = "valid" THEN UserObject ELSE False))
  /\ sinceCall' = After(FALSE, body = "rejects")
  /\ UNCHANGED <<server, env, clockMs, token, hash, browserOpen>>

\* A page load: the module starts over (__isLoggedIn undefined, no
\* continuation of the page left behind survives), localStorage stays.
PageLoad(h) ==
  /\ hash' = h
  /\ memo' = Unknown
  /\ pending' = NonePending
  /\ sinceCall' = Nothing

\* discordLogin(): lines 52-68. The native shell opens the embedded
\* browser; a web page navigates to the identity provider, which sends the
\* browser back to the page, with or without a "#token=" fragment.
DiscordLogin ==
  IF getApiBase(env).threw
  THEN /\ lastOp' = Did("discordLogin", "call", Null, FALSE, Quiet(Rejected))
       /\ UNCHANGED <<server, env, clockMs, token, hash, memo, pending, browserOpen,
                      sinceCall>>
  ELSE IF isNative(env)
  THEN /\ browserOpen' = TRUE
       /\ lastOp' = Did("discordLogin", "call", Null, FALSE, Quiet(Unknown))
       /\ UNCHANGED <<server, env, clockMs, token, hash, memo, pending, sinceCall>>
  ELSE /\ \E h \in Hashes : PageLoad(h)
       /\ lastOp' = Did("load", "call", Null, FALSE, Quiet(Nothing))
       /\ UNCHANGED <<server, env, clockMs, token, browserOpen>>

\* The URLs the shell may open the app with, by whether new URL() parses
\* them and which of the code, state and error parameters they carry.
OpenedUrl(parses, code, state, error) ==
  [parses |-> parses, code |-> code, state |-> state, error |-> error]

OpenedUrls ==
  { OpenedUrl(FALSE, FALSE, FALSE, FALSE),
    OpenedUrl(TRUE, TRUE, TRUE, FALSE),
    OpenedUrl(TRUE, TRUE, FALSE, FALSE),
    OpenedUrl(TRUE, FALSE, FALSE, FALSE),
    OpenedUrl(TRUE, FALSE, FALSE, TRUE),
    OpenedUrl(TRUE, TRUE, TRUE, TRUE) }

\* The listener as it would be without the test of line 190: a URL with an
\* error parameter is treated like one without.
AppUrlOpen_ErrorUnchecked(url) ==
  LET base == getApiBase(env)
      exchange == url.parses /\ url.code /\ url.state
      next == IF ~url.parses THEN <<"appUrlOpen.close.catch">>
              ELSE IF ~exchange THEN <<>>
              ELSE IF base.threw THEN <<"appUrlOpen.close.catch">>
              ELSE <<"appUrlOpen.fetch">>
      requests == IF exchange /\ ~base.threw
                  THEN <<Request("POST", base.value, "/mobile/callback", Null)>>
                  ELSE <<>>
      branch == IF ~url.parses THEN "unparsable"
                ELSE IF url.error /\ url.code /\ url.state
                THEN "error, code and state"
                ELSE IF url.error THEN "error"
                ELSE IF url.code /\ url.state THEN "code and state"
                ELSE "no code or state"
  IN  /\ isNative(env)
      /\ InFlight + Len(next) <= MaxInFlight
      /\ pending' = SuspendAll(pending, next)
      /\ lastOp' = Did("appUrlOpen", branch, Null, FALSE,
                        [Quiet(IF next = <<>> THEN Unknown ELSE Pending)
                           EXCEPT !.requests = requests])
      /\ UNCHANGED <<server, env, clockMs, token, hash, memo, browserOpen, sinceCall>>

\* The appUrlOpen listener, lines 183-198 and 228-230, to its first await:
\* Browser.close() of the error branch or of the catch block, or the fetch.
\* With neither an error nor both a code and a state it returns at once.
\* lastOp.how names the branch the URL took.
\* initializeAuthListener registers it on no web page (line 181).
AppUrlOpen(url) ==
  LET base == getApiBase(env)
      exchange == url.parses /\ ~url.error /\ url.code /\ url.state
      next == IF ~url.parses THEN <<"appUrlOpen.close.catch">>
              ELSE IF url.error THEN <<"appUrlOpen.close.return">>
              ELSE IF ~exchange THEN <<>>
              ELSE IF base.threw THEN <<"appUrlOpen.close.catch">>
              ELSE <<"appUrlOpen.fetch">>
      requests == IF exchange /\ ~base.threw
                  THEN <<Request("POST", base.value, "/mobile/callback", Null)>>
                  ELSE <<>>
      branch == IF ~url.parses THEN "unparsable"
                ELSE IF url.error /\ url.code /\ url.state
                THEN "error, code and state"
                ELSE IF url.error THEN "error"
                ELSE IF exchange THEN "code and state"
                ELSE "no code or state"
  IN  /\ isNative(env)
      /\ InFlight + Len(next) <= MaxInFlight
      /\ pending' = SuspendAll(pending, next)
      /\ lastOp' = Did("appUrlOpen", branch, Null, FALSE,
                        [Quiet(IF next = <<>> THEN Unknown ELSE Pending)
                           EXCEPT !.requests = requests])
      /\ UNCHANGED <<server, env, clockMs, token, hash, memo, browserOpen, sinceCall>>

\* The listener from line 198 to the await of line 216, or to the catch
\* block's Browser.close() when the response is not ok or the fetch rejects.
AppUrlOpenFetchDone(outcome) ==
  /\ Resumed("appUrlOpen.fetch",
              IF outcome = "ok" THEN "appUrlOpen.json"
              ELSE "appUrlOpen.close.catch")
  /\ lastOp' = Did("appUrlOpen.fetch", outcome, Null, FALSE, Quiet(Pending))
  /\ UNCHANGED <<server, env, clockMs, token, hash, memo, browserOpen, sinceCall>>

\* The listener as it would be without the assignment of line 220.
AppUrlOpenJsonDone_MemoKept(body) ==
  /\ body \in CallbackTokens \cup {"no token", "rejects"}
  /\ Resumed("appUrlOpen.json",
              IF body \in CallbackTokens THEN "appUrlOpen.close.navigate"
              ELSE IF body = "no token" THEN "appUrlOpen.close.return"
              ELSE "appUrlOpen.close.catch")
  /\ token' = IF body \in CallbackTokens THEN body ELSE token
  /\ memo' = memo
  /\ lastOp' = Did("appUrlOpen.json",
                    IF body \in CallbackTokens THEN "token" ELSE body, Null, FALSE,
                    [Quiet(Pending) EXCEPT !.wrote = body \in CallbackTokens])
  /\ sinceCall' = After(body \in CallbackTokens, FALSE)
  /\ UNCHANGED <<server, env, clockMs, hash, browserOpen>>

\* The listener from line 216 to the Browser.close() of line 221, 225 or 230.
AppUrlOpenJsonDone(body) ==
  /\ body \in CallbackTokens \cup {"no token", "rejects"}
  /\ Resumed("appUrlOpen.json",
              IF body \in CallbackTokens THEN "appUrlOpen.close.navigate"
              ELSE IF body = "no token" THEN "appUrlOpen.close.return"
              ELSE "appUrlOpen.close.catch")
  /\ token' = IF body \in CallbackTokens THEN body ELSE token
  /\ memo' = IF body \in CallbackTokens THEN Unknown ELSE memo
  /\ lastOp' = Did("appUrlOpen.json",
                    IF body \in CallbackTokens THEN "token" ELSE body, Null, FALSE,
                    [Quiet(Pending) EXCEPT !.wrote = body \in CallbackTokens])
  /\ sinceCall' = After(body \in CallbackTokens, FALSE)
  /\ UNCHANGED <<server, env, clockMs, hash, browserOpen>>

\* The listener after a Browser.close(): resolved, the browser is closed and
\* the listener returns, or navigates to the origin (line 222), which loads
\* the page anew; rejected, the catch block closes again, and a rejection
\* inside the catch block rejects the listener.
CloseOutcomes == {"resolves", "rejects"}

BrowserCloseDone(p, outcome) ==
  /\ p \in {"appUrlOpen.close.return", "appUrlOpen.close.navigate",
             "appUrlOpen.close.catch"}
  /\ pending[p] > 0
  /\ IF outcome = "resolves"
     THEN /\ browserOpen' = FALSE
          /\ IF p = "appUrlOpen.close.navigate"
             THEN PageLoad(NoHash)
             ELSE /\ pending' = Resume(pending, p)
                  /\ UNCHANGED <<hash, memo, sinceCall>>
          /\ lastOp' = Did(IF p = "appUrlOpen.close.navigate" THEN "load"
                            ELSE "appUrlOpen.close", outcome, Null, FALSE,
                            Quiet(Nothing))
     ELSE /\ pending' = IF p = "appUrlOpen.close.catch"
                         THEN Resume(pending, p)
                         ELSE Suspend(Resume(pending, p),
                                      "appUrlOpen.close.catch")
          /\ lastOp' = Did("appUrlOpen.close", outcome, Null, FALSE,
                            Quiet(IF p = "appUrlOpen.close.catch"
                                  THEN Unhandled ELSE Pending))
          /\ UNCHANGED <<hash, memo, browserOpen, sinceCall>>
  /\ UNCHANGED <<server, env, clockMs, token>>

Tick ==
  /\ clockMs < (StartSeconds + MaxTicks * TickSeconds) * 1000
  /\ clockMs' = clockMs + TickSeconds * 1000
  /\ lastOp' = Did("tick", "call", Null, FALSE, Quiet(Nothing))
  /\ UNCHANGED <<server, env, token, hash, memo, pending, browserOpen, sinceCall>>

Next ==
  \/ IsLoggedIn
  \/ \E allSessions \in BOOLEAN : LogOut(allSessions)
  \/ \E p \in Positions, o \in FetchOutcomes : LogOutFetchDone(p, o)
  \/ PostRefresh
  \/ \E o \in StatusOutcomes : PostRefreshFetchDone(o)
  \/ \E b \in RefreshTokens \cup {"invalid", "rejects"} : PostRefreshJsonDone(b)
  \/ GetUserMe
  \/ \E o \in StatusOutcomes : GetUserMeFetchDone(o)
  \/ \E b \in BodyOutcomes : GetUserMeJsonDone(b)
  \/ DiscordLogin
  \/ \E url \in OpenedUrls : AppUrlOpen(url)
  \/ \E o \in FetchOutcomes : AppUrlOpenFetchDone(o)
  \/ \E b \in CallbackTokens \cup {"no token", "rejects"} : AppUrlOpenJsonDone(b)
  \/ \E p \in Positions, o \in CloseOutcomes : BrowserCloseDone(p, o)
  \/ Tick

Spec == Init /\ [][Next]_vars

\* ------------------------------------------------------------- the server

\* The server after part_000 has been loaded, seen by itself: the page is
\* one production web page at rest.
ServerInit ==
  /\ config \in Configs
  /\ allowedOrigins = allowedOriginsAtStartup(config)
  /\ answer = NoAnswer
  /\ env \in {e \in Deployments :
                ~isNative(e) /\ getAudience(e) = <<"openfront", "io">>}
  /\ clockMs = StartSeconds * 1000
  /\ token = Null
  /\ hash = NoHash
  /\ memo = Unknown
  /\ pending = NonePending
  /\ browserOpen = FALSE
  /\ lastOp = [Did("load", "call", Null, FALSE, Quiet(Nothing))
                 EXCEPT !.prev = Nothing]
  /\ sinceCall = Nothing

\* The cors middleware asks corsOptions.origin about a request's Origin.
Serve(o) ==
  /\ answer' = corsOptionsOrigin(o, allowedOrigins)
  /\ UNCHANGED <<client, config, allowedOrigins>>

ServerNext == \E o \in RequestOrigins : Serve(o)

ServerSpec == ServerInit /\ [][ServerNext]_vars

\* ------------------------------------------------ vocabulary of the claims

\* The requests of a step that went to `path`.
Sent(path) ==
  Cardinality({i \in 1..Len(lastOp.requests) : lastOp.requests[i].path = path})

LogoutPosts == Sent("/logout") + Sent("/revoke")
RefreshPosts == Sent("/refresh")

\* The last step was an isLoggedIn() call: one that ran the Claim Validator
\* (the memo was unknown), or one answered from the memo.
CalledIsLoggedIn == lastOp.op = "isLoggedIn"
Validated == CalledIsLoggedIn /\ lastOp.validated
Memoized == CalledIsLoggedIn /\ ~lastOp.validated

\* The deployment's expected audience and issuer; the issuer exists only
\* where getApiBase() returns.
ExpectedAudience == getAudience(env)
HasExpectedIssuer == ~getApiBase(env).threw
ExpectedIssuer == getApiBase(env).value

\* The claims of the token the last call read. No Tick lies between that
\* call and the state that records it, so `now` is the call's time.
Read == Payloads[lastOp.tok]
ReadDecodable == lastOp.tok # Null /\ lastOp.tok \in DOMAIN Payloads
IssuerOk == HasExpectedIssuer /\ (isNative(env) \/ Read.iss = ExpectedIssuer)
AudienceOk == Read.aud = ExpectedAudience
ExpiredStrictly == Read.exp # Absent /\ Read.exp[1] < now
ExpiredOrDue == Read.exp # Absent /\ Read.exp[1] <= now
SixHoursOld == Read.iat # Absent /\ Read.iat[1] + 6 * 3600 <= now

\* ------------------------------------------------------------------ C1

\* C1: in every reachable state, a memoized Authenticated SessionState
\* carries claims whose audience is the deployment's computed audience and,
\* on a web page, whose issuer is the computed API base; only the native
\* shell may hold an Authenticated state with another issuer.
C1_AuthenticatedMatchesDeployment ==
  memo.tag = "authenticated" =>
    /\ memo.claims.aud = ExpectedAudience
    /\ ~isNative(env) =>
         HasExpectedIssuer /\ memo.claims.iss = ExpectedIssuer

\* A web page whose isLoggedIn() has validated a token and memoized it.
C1_Witness ==
  /\ ~isNative(env)
  /\ Validated
  /\ memo.tag = "authenticated"
  /\ memo.claims.iss = ProdApi

\* ------------------------------------------------------------------ C2

\* C2 as stated: whenever the store holds a token whose expiresAt is
\* earlier than the current time, a call of isLoggedIn() returns logged-out
\* and the store is empty afterwards.
C2_Original ==
  (CalledIsLoggedIn /\ ReadDecodable /\ ExpiredStrictly) =>
    lastOp.result = LoggedOut /\ token = Null

\* C2 amended: a call of isLoggedIn() that runs the Claim Validator (the
\* memo is unknown) on a token whose expiresAt is earlier than the current
\* time returns logged-out, and the store is empty afterwards unless
\* getApiBase() threw (the catch block returns false and removes nothing).
C2_ExpiredTokenLogsOut ==
  (Validated /\ ReadDecodable /\ ExpiredStrictly) =>
    /\ lastOp.result = LoggedOut
    /\ memo = LoggedOut
    /\ HasExpectedIssuer => token = Null

\* The validator has just thrown out a token that expired half an hour ago.
C2_Witness ==
  /\ Validated
  /\ ReadDecodable
  /\ ExpiredStrictly
  /\ IssuerOk /\ AudienceOk
  /\ token = Null
  /\ LogoutPosts = 1

\* ------------------------------------------------------------------ C3

\* What the next isLoggedIn() call would return in this state.
NextAnswer ==
  IF memo = Unknown THEN _isLoggedIn(token, hash, env, now).result ELSE memo

\* The last step was postRefresh() storing the replacement token.
RefreshSucceeded ==
  lastOp.op = "postRefresh.json" /\ lastOp.result = Succeeded

\* C3: after a refresh has stored the replacement token the memo is
\* unknown again, so that the next isLoggedIn() call does not answer with
\* the token held before the refresh.
C3_RefreshInvalidatesMemo ==
  RefreshSucceeded =>
    /\ memo = Unknown
    /\ NextAnswer.tag = "authenticated" => NextAnswer.token = token

\* ------------------------------------------------------------------ C4

\* The last step was postRefresh() returning false on a non-200 response.
RefreshRefused ==
  lastOp.op = "postRefresh.fetch" /\ lastOp.how = "500"

\* C4: when the refresh endpoint answers with a non-200 status, refresh()
\* resolves to false, the store is left as it was, and isLoggedIn() then
\* reports logged-out.
C4_RefusedRefreshLogsOut ==
  RefreshRefused =>
    /\ lastOp.result = False
    /\ ~lastOp.wrote
    /\ NextAnswer = LoggedOut

\* ------------------------------------------------------------------ C5

\* The token the call read passes the issuer and audience checks, was
\* issued at least six hours ago and has not expired.
InRefreshWindow ==
  /\ ReadDecodable
  /\ IssuerOk /\ AudienceOk
  /\ SixHoursOld
  /\ ~ExpiredOrDue

\* C5 as stated: for every such token isLoggedIn() returns Authenticated,
\* the validation triggers exactly one refresh, and calls answered from the
\* memo trigger none.
C5_Original ==
  (CalledIsLoggedIn /\ InRefreshWindow) =>
    /\ lastOp.result.tag = "authenticated"
    /\ RefreshPosts = (IF lastOp.validated THEN 1 ELSE 0)

\* C5 amended: for every such token whose payload also has the expected
\* claim shape, a call of isLoggedIn() that runs the Claim Validator returns
\* Authenticated with that token and triggers exactly one refresh; a token
\* of another shape gets logged-out, with the one refresh still triggered;
\* and a call answered from the memo triggers no refresh at all.
C5_OneRefreshPerValidation ==
  /\ (Validated /\ InRefreshWindow) =>
       /\ RefreshPosts = 1
       /\ pending["postRefresh.fetch"] >= 1
       /\ lastOp.result =
            (IF Read.shaped
             THEN Authenticated(lastOp.tok,
                                [iss |-> Read.iss, aud |-> Read.aud,
                                 iat |-> Read.iat, exp |-> Read.exp])
             ELSE LoggedOut)
  /\ Memoized => lastOp.requests = <<>> /\ lastOp.decodes = 0

\* A well-shaped token exactly six hours old has just been validated: the
\* caller is logged in and one refresh is in flight.
C5_Witness ==
  /\ Validated
  /\ InRefreshWindow
  /\ Read.iat[1] + 6 * 3600 = now
  /\ lastOp.result.tag = "authenticated"
  /\ RefreshPosts = 1

\* ------------------------------------------------------------------ C6

\* The last step was an isLoggedIn() call that followed another one on the
\* same page, with no write of the store's token between the two.
SecondCall == CalledIsLoggedIn /\ lastOp.prev # Nothing

\* C6 as stated: the second of two such calls returns what the first
\* returned and decodes nothing, whatever continuations ran in between.
C6_Original ==
  SecondCall => lastOp.result = lastOp.prev.ret /\ lastOp.decodes = 0

\* C6 amended: the second call decodes nothing, and returns what the first
\* returned unless, in between, a catch block of postRefresh or getUserMe
\* assigned false to the memo (a request or a response body that threw):
\* then it returns logged-out.
C6_SecondCallIsMemoized ==
  SecondCall =>
    /\ lastOp.decodes = 0
    /\ lastOp.requests = <<>>
    /\ lastOp.result =
         (IF lastOp.prev.markedOut THEN LoggedOut ELSE lastOp.prev.ret)

\* A second call that answers Authenticated again while a continuation is
\* still suspended.
C6_Witness ==
  /\ SecondCall
  /\ ~lastOp.prev.markedOut
  /\ lastOp.result.tag = "authenticated"
  /\ lastOp.result = lastOp.prev.ret
  /\ InFlight > 0

\* ------------------------------------------------------------------ C7

\* The last step was a logOut(allSessions) call that found a token.
LoggedOutWithToken == lastOp.op = "logOut" /\ lastOp.tok # Null

\* The step is the logOut continuation that receives the POST's outcome.
LogOutResponse == lastOp'.op = "logOut.fetch"

\* C7: logOut with a token present leaves the store empty and the memo
\* logged-out in the step that issues the POST (which carries the removed
\* token as bearer), and the step that receives the POST's outcome, ok or
\* not, changes neither the store nor the memo.
C7_LogoutIsLocalFirst ==
  /\ [](LoggedOutWithToken =>
          /\ token = Null
          /\ memo = LoggedOut
          /\ lastOp.wrote
          /\ \A i \in 1..Len(lastOp.requests) :
               /\ lastOp.requests[i].method = "POST"
               /\ lastOp.requests[i].path \in {"/logout", "/revoke"}
               /\ lastOp.requests[i].bearer = lastOp.tok
          /\ HasExpectedIssuer => LogoutPosts = 1)
  /\ [][LogOutResponse => token' = token /\ memo' = memo]_vars

\* The POST of a logout came back not ok, and the local state is still
\* logged-out.
C7_Witness ==
  /\ lastOp.op = "logOut.fetch"
  /\ lastOp.how = "not ok"
  /\ lastOp.result = False
  /\ token = Null
  /\ memo = LoggedOut

\* ------------------------------------------------------------------ C8

\* The token the call read fails the issuer check (web only), the audience
\* check or the expiry check (current time >= expiresAt).
FailsAClaimCheck ==
  /\ ReadDecodable
  /\ HasExpectedIssuer
  /\ \/ ~isNative(env) /\ Read.iss # ExpectedIssuer
     \/ ~AudienceOk
     \/ ExpiredOrDue

C9_MalformedTokenLogsOut ==
  (Validated /\ lastOp.tok # Null /\ ~ReadDecodable) =>
    /\ lastOp.result = LoggedOut
    /\ token = Null
    /\ LogoutPosts = 1

\* ------------------------------------------------------------------ C10

\* The steps of isLoggedIn(), refresh(), getUserMe() and logout() that a
\* caller sees the outcome of.
CallerSteps ==
  {"isLoggedIn", "logOut", "logOut.fetch", "postRefresh", "postRefresh.fetch",
   "postRefresh.json", "getUserMe", "getUserMe.fetch", "getUserMe.json"}

\* C10: none of the four operations ends in an error raised to or rejected
\* at its caller, whatever fails.
C10_NoErrorReachesCaller ==
  lastOp.op \in CallerSteps => lastOp.result # Rejected

\* ------------------------------------------------------------------ C11

\* The last step ended a run of the appUrlOpen listener: it returned
\* (at once, after a Browser.close(), or into the navigation) or rejected.
ListenerReturnedAtOnce ==
  lastOp.op = "appUrlOpen" /\ lastOp.result = Unknown

ListenerFinished ==
  \/ ListenerReturnedAtOnce
  \/ lastOp.op = "appUrlOpen.close" /\ lastOp.result # Pending
  \/ lastOp.op = "load" /\ lastOp.how = "resolves"

\* C11: whichever path the listener takes for an opened URL, the embedded
\* browser is closed when the listener has finished.
C11_ListenerClosesBrowser ==
  ListenerFinished => ~browserOpen

\* ------------------------------------------------------------------ C12

\* The step `op` records is the listener's run for a URL with an error
\* parameter.
ErrorBranch(op) ==
  op.op = "appUrlOpen" /\ op.how \in {"error", "error, code and state"}

\* C12: for a URL with an error parameter, with or without code and state,
\* the listener sends no request, leaves the stored token and __isLoggedIn
\* as they are and goes on to Browser.close() and nothing else; and a
\* Browser.close() that resolved has closed the browser.
C12_ErrorParameterStopsExchange ==
  /\ [][ErrorBranch(lastOp') =>
          /\ lastOp'.requests = <<>>
          /\ token' = token
          /\ memo' = memo
          /\ pending' = Suspend(pending, "appUrlOpen.close.return")]_vars
  /\ [](lastOp.op = "appUrlOpen.close" /\ lastOp.how = "resolves"
          => ~browserOpen)

\* An error URL that also carries code and state arrives while the browser
\* is open and the session is authenticated.
C12_Witness ==
  /\ lastOp.op = "appUrlOpen"
  /\ lastOp.how = "error, code and state"
  /\ browserOpen
  /\ token # Null
  /\ memo \notin {Unknown, LoggedOut}
  /\ pending["appUrlOpen.close.return"] = 1
  /\ pending["appUrlOpen.fetch"] = 0

\* ------------------------------------------------------------------ C13

ListenerSteps ==
  {"appUrlOpen", "appUrlOpen.fetch", "appUrlOpen.json", "appUrlOpen.close"}

\* The step `op` records is the listener receiving an ok response whose
\* body holds a token.
TokenExchanged(op) ==
  op.op = "appUrlOpen.json" /\ op.how = "token"

\* C13: a step of the listener writes the stored token and sets
\* __isLoggedIn to undefined exactly when it received an ok response with a
\* token, and then goes on to Browser.close() and the navigation; every
\* other step of the listener leaves both as they are. The navigation
\* happens with the browser closed.
C13_OnlyTokenExchangeWrites ==
  /\ [][lastOp'.op \in ListenerSteps =>
          IF TokenExchanged(lastOp')
          THEN /\ lastOp'.wrote
               /\ token' \in CallbackTokens
               /\ memo' = Unknown
               /\ pending' = Suspend(Resume(pending, "appUrlOpen.json"),
                                      "appUrlOpen.close.navigate")
          ELSE /\ ~lastOp'.wrote
               /\ token' = token
               /\ memo' = memo]_vars
  /\ [](lastOp.op = "load" /\ lastOp.how = "resolves"
          => ~browserOpen /\ memo = Unknown)

\* The exchange delivered a token: it is in the store, the memo is
\* unknown, and the listener is waiting for Browser.close().
C13_Witness ==
  /\ TokenExchanged(lastOp)
  /\ token \in CallbackTokens
  /\ memo = Unknown
  /\ browserOpen
  /\ pending["appUrlOpen.close.navigate"] = 1

\* ------------------------------------------------------------------ C14

\* The origin function was asked about a request and allowed it, or
\* rejected it with an error.
Allowed == answer.asked /\ answer.err = Null /\ answer.allow = Some(TRUE)
Refused == answer.asked /\ answer.err # Null

\* `s` is an element of the allowedOrigins array, character for character.
Listed(s) == \E i \in DOMAIN allowedOrigins : allowedOrigins[i] = s

\* C14: a request is allowed if and only if it carries no Origin header or
\* its Origin equals an element of allowedOrigins; every other request is
\* refused with an error; credentials are enabled.
C14_AllowedIffNoOriginOrListed ==
  answer.asked =>
    /\ Allowed <=> (answer.origin = Absent \/ Listed(answer.origin[1]))
    /\ Refused <=> ~Allowed
    /\ answer.credentials

\* ------------------------------------------------------------------ C15

FixedOrigins == {"capacitor://openfront.io", "https://openfront.io"}

\* C15: allowedOrigins stays what it was at startup; it holds the server's
\* own origin and the two fixed origins; it holds http://<ip>:9000 exactly
\* in development with <ip> the local address found; and outside
\* development no request is allowed because of a local-network origin.
C15_AllowListFixedAtStartup ==
  /\ [][allowedOrigins' = allowedOrigins /\ config' = config]_vars
  /\ [](/\ Listed(config.origin)
        /\ \A o \in FixedOrigins : Listed(o)
        /\ Listed("http://192.168.1.5:9000") <=>
             (config.env = "Dev" /\ config.localIp = Some("192.168.1.5"))
        /\ Listed("http://10.0.0.7:9000") <=>
             (config.env = "Dev" /\ config.localIp = Some("10.0.0.7"))
        /\ \A s \in {"http://192.168.1.5:9000", "http://10.0.0.7:9000"} :
             (Allowed /\ answer.origin = Some(s)) => config.env = "Dev")

\* A development server that found its address has allowed a request from
\* the local-network origin.
C15_Witness ==
  /\ config.env = "Dev"
  /\ config.localIp = Some("192.168.1.5")
  /\ Len(allowedOrigins) = 4
  /\ Allowed
  /\ answer.origin = Some("http://192.168.1.5:9000")

\* ------------------------------------------------------------------ C16

\* A refresh has sent its request and not yet finished.
RefreshInFlight ==
  pending["postRefresh.fetch"] + pending["postRefresh.json"] > 0

\* The step `op` records is a refresh response landing with a token.
RefreshLanded(op) ==
  op.op = "postRefresh.json" /\ op.how = "valid"

\* C16: while a refresh is in flight the store is empty only after a
\* logout, which has marked the memo logged-out; and the refresh response
\* that then lands writes its token into the empty store all the same,
\* leaving the memo logged-out.
C16_RefreshOverwritesLogout ==
  /\ [](RefreshInFlight /\ token = Null => memo = LoggedOut)
  /\ [][(token = Null /\ RefreshLanded(lastOp')) =>
          (token' \in RefreshTokens /\ memo' = LoggedOut)]_vars

\* The store was empty, the memo says logged-out, and the landed refresh has
\* put a token into the store.
C16_Witness ==
  /\ RefreshLanded(lastOp)
  /\ lastOp.before = Null
  /\ lastOp.wrote
  /\ token \in RefreshTokens
  /\ memo = LoggedOut

\* ------------------------------------------------------------------ C17

\* The validator ran on a token that passes the issuer, audience and expiry
\* checks and whose payload does not have the expected shape.
ShapeMismatch ==
  /\ Validated
  /\ ReadDecodable
  /\ IssuerOk
  /\ AudienceOk
  /\ ~ExpiredOrDue
  /\ ~Read.shaped

\* C17: on a shape mismatch the call returns logged-out, the token stays
\* in the store and no logout or revoke request is sent; a refresh request
\* is sent exactly if the token is six hours old.
C17_ShapeMismatchKeepsToken ==
  ShapeMismatch =>
    /\ lastOp.result = LoggedOut
    /\ memo = LoggedOut
    /\ token = lastOp.tok
    /\ LogoutPosts = 0
    /\ RefreshPosts = (IF SixHoursOld THEN 1 ELSE 0)
    /\ Len(lastOp.requests) = RefreshPosts

C17_Witness ==
  /\ ShapeMismatch
  /\ lastOp.result = LoggedOut
  /\ token = lastOp.tok
  /\ RefreshPosts = 1

\* ------------------------------------------------------------------ C18

\* The last step was refresh() or getUserMe() failing: a status other than
\* 200, a body that fails the schema, or a request or body that threw.
RefreshOrFetchFailed ==
  \/ /\ lastOp.op \in {"postRefresh.fetch", "getUserMe.fetch"}
     /\ lastOp.how \in {"500", "rejects"}
  \/ /\ lastOp.op \in {"postRefresh.json", "getUserMe.json"}
     /\ lastOp.how \in {"invalid", "rejects"}

\* C18: a failed refresh() or getUserMe() leaves the stored token as it
\* was, and afterwards the memo is logged-out.
C18_FailureKeepsTokenMarksOut ==
  RefreshOrFetchFailed =>
    /\ ~lastOp.wrote
    /\ token = lastOp.before
    /\ memo = LoggedOut

\* ------------------------------------------------------------------ C19

\* C19: whenever the memo is Authenticated the store holds a token.
C19_AuthenticatedHasToken ==
  memo \notin {Unknown, LoggedOut} => token # Null

\* The memo is Authenticated with a token the store no longer holds (a
\* refresh replaced it) while another request is in flight.
C19_Witness ==
  /\ memo \notin {Unknown, LoggedOut}
  /\ token # Null
  /\ token # memo.token
  /\ InFlight > 0

\* ------------------------------------------------------------------ C20

\* C20: on one page load the memo, once computed, becomes unknown again
\* only when the native listener has exchanged a code for a token, and
\* never on a web page; the validator runs only while the memo is unknown;
\* and a logged-out memo stays logged-out, and is what isLoggedIn()
\* returns without validating, through every logout, refresh, getUserMe
\* and tick.
C20_LoggedOutIsSticky ==
  /\ [][(memo # Unknown /\ memo' = Unknown) =>
          \/ lastOp'.op = "load"
          \/ isNative(env) /\ TokenExchanged(lastOp')]_vars
  /\ [][(lastOp'.op = "isLoggedIn" /\ lastOp'.validated) =>
          memo = Unknown]_vars
  /\ [][(memo = LoggedOut
          /\ lastOp'.op \notin {"load", "appUrlOpen.json"}) =>
          /\ memo' = LoggedOut
          /\ lastOp'.op = "isLoggedIn" =>
               (lastOp'.result = LoggedOut /\ ~lastOp'.validated
                /\ lastOp'.decodes = 0)]_vars

\* isLoggedIn() answers logged-out from the memo although the store holds a
\* token that passes every check of the validator.
C20_Witness ==
  /\ Memoized
  /\ lastOp.result = LoggedOut
  /\ token = lastOp.tok
  /\ ReadDecodable
  /\ IssuerOk
  /\ AudienceOk
  /\ ~ExpiredOrDue
  /\ Read.shaped

====
